---- MODULE Spec2Model ----
(***************************************************************************)
(* proreader: a pull-based, block-aligned binary reader on top of a        *)
(* push-based byte stream.  The repository holds three revisions of the    *)
(* Reader:                                                                 *)
(*   "part_000"  src/unnamed/part_000  (_data queue, _end, _error)         *)
(*   "part_001"  src/unnamed/part_001  (the stream's own buffer is the     *)
(*                                      queue, push-back is unshift)       *)
(*   "reader"    src/reader.js         (_events queue)                     *)
(* and, in src/proreader.js, the ProReader ("proreader"), of which the      *)
(* scalar reads are modelled.                                               *)
(* The variable revision says which one was constructed.  Source bytes are *)
(* numbered: the i-th byte the source writes has the value i, so loss,     *)
(* duplication and reordering are visible.                                 *)
(* ops holds the frames of the public calls, in call order; when a call is *)
(* issued, the frames before it that are over are replaced by Retired and  *)
(* what they did is summed up in past.                                     *)
(***************************************************************************)
EXTENDS Integers, Sequences, FiniteSets, TLC

MaxBytes == 4
MaxChunk == 2
MaxOps == 2
MaxLen == 3
MaxBlock == 2
MaxByte == 1

Null == 0
Undefined == -1

VARIABLES revision, nativeEndianness, source, stream, reader, ops, past

vars == <<revision, nativeEndianness, source, stream, reader, ops, past>>

-----------------------------------------------------------------------------
(* Pure helpers: byte sequences.                                           *)

Min(a, b) == IF a < b THEN a ELSE b

RECURSIVE SumLen(_)
SumLen(chunks) ==
    IF chunks = <<>> THEN 0 ELSE Len(Head(chunks)) + SumLen(Tail(chunks))

RECURSIVE Flatten(_)
Flatten(chunks) ==
    IF chunks = <<>> THEN <<>> ELSE Head(chunks) \o Flatten(Tail(chunks))

Slice(s, from, to) == SubSeq(s, from + 1, to)

\* Buffer.prototype.copy: chunk[0..length) over buffer[offset..offset+length)
Copy(buffer, offset, chunk, length) ==
    [k \in 1..Len(buffer) |->
        IF k > offset /\ k <= offset + length THEN chunk[k - offset] ELSE buffer[k]]

\* mutant of swap: the bytes stay as they are
Swap_none(buffer, n, elementLength) == buffer

\* mutant of swap: every element of the buffer is swapped, whatever n is
Swap_all(buffer, n, elementLength) ==
    [k \in 1..Len(buffer) |->
        LET e == (k - 1) \div elementLength
            j == (k - 1) % elementLength
        IN buffer[e * elementLength + (elementLength - j)]]

\* Buffer.prototype.swap16/32/64 on the first n bytes of buffer
Swap(buffer, n, elementLength) ==
    [k \in 1..Len(buffer) |->
        IF k <= n
        THEN LET e == (k - 1) \div elementLength
                 j == (k - 1) % elementLength
             IN buffer[e * elementLength + (elementLength - j)]
        ELSE buffer[k]]

Bytes(from, n) == [k \in 1..n |-> from + k]

Reverse(s) == [k \in 1..Len(s) |-> s[Len(s) + 1 - k]]

\* typedArray[k] as the platform reads it from the array's memory: the bytes of
\* the element, most significant first
ElementAt(buffer, k, elementLength, native) ==
    LET memory == SubSeq(buffer, k * elementLength + 1, (k + 1) * elementLength)
    IN IF native = "BE" THEN memory ELSE Reverse(memory)

\* the unsigned number an element of at most 4 bytes, most significant first, is
RECURSIVE Number(_)
Number(element) ==
    IF element = <<>> THEN 0
    ELSE 256 * Number(SubSeq(element, 1, Len(element) - 1)) + element[Len(element)]

\* buffer.toString() of bytes below 128: the code units of the string
toString(buffer) == [k \in 1..Len(buffer) |-> buffer[k] % 128]

-----------------------------------------------------------------------------
(* The PassThrough stream the Reader listens to, as far as the Reader uses  *)
(* it: a buffer of chunks, the flowing flag, the end flags, and whether the *)
(* Reader's 'data' and 'end' listeners are attached.                        *)

NewStream ==
    [buffer |-> <<>>, flowing |-> FALSE, ended |-> FALSE, endEmitted |-> FALSE,
     onData |-> TRUE, onEnd |-> TRUE]

Pause(m) == [m EXCEPT !.stream.flowing = FALSE]

Resume(m) == [m EXCEPT !.stream.flowing = TRUE]

-----------------------------------------------------------------------------
(* A public call and the fill it runs (the frames of the async functions).  *)

Containers ==
    [isBuffer : {TRUE}, elementLength : {1}, length : 0..MaxLen]
    \cup [isBuffer : {FALSE}, elementLength : {2}, length : 1..(MaxLen \div 2)]
    \cup [isBuffer : {FALSE}, elementLength : {1}, length : {1}]

NewOp(c, blockLength, endianness, allowPart) ==
    [isBuffer |-> c.isBuffer, elementLength |-> c.elementLength,
     length |-> c.length, blockLength |-> blockLength,
     endianness |-> endianness, allowPart |-> allowPart,
     fillBlock |-> IF c.isBuffer THEN blockLength ELSE blockLength * c.elementLength,
     dest |-> [k \in 1..(c.length * c.elementLength) |-> 0],
     offset |-> 0, fst |-> "await", blockCount |-> Undefined,
     excess |-> <<>>, rest |-> <<>>,
     status |-> "pending", value |-> Undefined, err |-> "none",
     errBlockCount |-> Undefined,
     method |-> "read", element |-> <<>>]

Settled(o) == o.status # "pending"

Machine == [source |-> source, stream |-> stream, reader |-> reader, ops |-> ops]

Install(m) ==
    /\ source' = m.source
    /\ stream' = m.stream
    /\ reader' = m.reader
    /\ ops' = m.ops
    /\ UNCHANGED <<revision, nativeEndianness>>


\* lines "chunk.copy ... offset += length ... chunk.slice(length)" of the fill loop
CopyChunk(o, chunk) ==
    LET length == Min(Len(o.dest) - o.offset, Len(chunk))
    IN [o EXCEPT !.dest = Copy(o.dest, o.offset, chunk, length),
                 !.offset = o.offset + length,
                 !.rest = IF length = Len(chunk) THEN @ ELSE Slice(chunk, length, Len(chunk))]

\* the destination with the in-place swap of the typed fill undone
SourceOrder(o) ==
    IF o.fst = "done" /\ ~o.isBuffer /\ o.endianness # nativeEndianness
       /\ o.elementLength > 1
    THEN Swap(o.dest, o.blockCount * o.fillBlock, o.elementLength)
    ELSE o.dest

\* the bytes a fill handed to its caller in whole blocks, in source order
WholeBlocks(o) ==
    IF o.fst = "done" THEN SubSeq(SourceOrder(o), 1, o.blockCount * o.fillBlock)
    ELSE <<>>

\* the bytes a fill holds: whole blocks once it returned, all it copied while
\* it is still filling
Held(o) ==
    IF o.fst = "await" THEN SubSeq(o.dest, 1, o.offset) ELSE WholeBlocks(o)

Leftover(o) == o.excess \o o.rest

\* the frame that stands for a call that is over
Retired ==
    [NewOp([isBuffer |-> TRUE, elementLength |-> 1, length |-> 0], 1, "LE", FALSE)
        EXCEPT !.fst = "retired", !.status = "retired"]

\* the index of the frame whose resolver the Reader stores
Pending == IF revision = "part_001" THEN reader.RESOLVE ELSE reader.resolve

\* a frame is over when its fill returned or threw, or when it awaits a chunk
\* through a resolver that is stored no more
Over(i) == ops[i].fst # "await" \/ Pending # i

Retire == [i \in 1..Len(ops) |-> IF Over(i) THEN Retired ELSE ops[i]]

\* past when the next call is issued: the bytes handed to callers in whole
\* blocks so far, what the call just before pushed back, and how many calls
\* the source failure has rejected
PastAtCall ==
    [handed |-> past.handed
                \o Flatten([i \in 1..Len(ops) |->
                                IF Over(i) THEN WholeBlocks(ops[i]) ELSE <<>>]),
     excess |-> IF Len(ops) > 0 /\ ops[Len(ops)].fst = "done"
                THEN ops[Len(ops)].excess ELSE <<>>,
     rest |-> IF Len(ops) > 0 /\ ops[Len(ops)].fst = "done"
              THEN ops[Len(ops)].rest ELSE <<>>,
     rejected |-> past.rejected
                  + Cardinality({i \in 1..Len(ops) : ops[i].err = "source"})]

\* a handler ran: no call was issued
Handled(m) == Install(m) /\ UNCHANGED past

\* a call was issued
Called(m) == Install(m) /\ past' = PastAtCall

-----------------------------------------------------------------------------
(* The source and the stream, common to the three revisions.                *)

\* the source writes its next k bytes as one chunk; they are buffered in the
\* stream until it flows
SourceWrite(k) ==
    /\ ~source.ended /\ ~source.failed
    /\ source.written + k <= MaxBytes
    /\ source' = [source EXCEPT !.written = @ + k]
    /\ stream' = [stream EXCEPT !.buffer = Append(@, Bytes(source.written, k))]
    /\ UNCHANGED <<revision, nativeEndianness, reader, ops, past>>

\* the source ends: the stream has its end-of-file queued behind the buffer
SourceEnd ==
    /\ ~source.ended /\ ~source.failed
    /\ source' = [source EXCEPT !.ended = TRUE]
    /\ stream' = [stream EXCEPT !.ended = TRUE]
    /\ UNCHANGED <<revision, nativeEndianness, reader, ops, past>>

\* a flowing stream without a 'data' listener drops its chunks
Discard ==
    /\ stream.flowing /\ ~stream.onData /\ stream.buffer # <<>>
    /\ stream' = [stream EXCEPT !.buffer = Tail(@)]
    /\ UNCHANGED <<revision, nativeEndianness, source, reader, ops, past>>

\* a flowing, drained, ended stream emits 'end' to nobody
EndUnobserved ==
    /\ stream.flowing /\ stream.buffer = <<>> /\ stream.ended
    /\ ~stream.endEmitted /\ ~stream.onEnd
    /\ stream' = [stream EXCEPT !.endEmitted = TRUE]
    /\ UNCHANGED <<revision, nativeEndianness, source, reader, ops, past>>

-----------------------------------------------------------------------------
(* Revision part_000.  reader = [error, data, end, bytesRemain, resolve];   *)
(* resolve is the index in ops of the fill whose chunk request is pending   *)
(* (_resolve and _reject are set and cleared together), Null when none.     *)

p0_Reader ==
    [error |-> FALSE, data |-> <<>>, end |-> FALSE, bytesRemain |-> Undefined,
     resolve |-> Null]

\* mutants of _unreadChunk: push to the back; no count
p0_unreadChunk_push(m, chunk) ==
    [m EXCEPT !.reader.data = Append(@, chunk),
              !.reader.bytesRemain =
                  IF m.reader.end \/ m.reader.error THEN @ + Len(chunk) ELSE @]

p0_unreadChunk_uncounted(m, chunk) ==
    [m EXCEPT !.reader.data = <<chunk>> \o @]

p0_unreadChunk(m, chunk) ==
    [m EXCEPT !.reader.data = <<chunk>> \o @,
              !.reader.bytesRemain =
                  IF m.reader.end \/ m.reader.error THEN @ + Len(chunk) ELSE @]

\* mutant of _dispatch: the stream is never paused
p0_dispatch_flowing(m) ==
    LET r == m.reader
        live == ~r.end /\ ~r.error
    IN IF r.resolve = Null
       THEN [m |-> m, got |-> "pending", chunk |-> <<>>]
       ELSE IF Len(r.data) > 0
       THEN [m |-> [m EXCEPT
                        !.reader.data = Tail(@),
                        !.reader.bytesRemain =
                            IF live THEN @ ELSE @ - Len(Head(r.data)),
                        !.reader.resolve = Null],
             got |-> "chunk", chunk |-> Head(r.data)]
       ELSE IF r.end
       THEN [m |-> [m EXCEPT !.reader.resolve = Null], got |-> "null", chunk |-> <<>>]
       ELSE IF r.error
       THEN [m |-> [m EXCEPT !.reader.resolve = Null], got |-> "error", chunk |-> <<>>]
       ELSE [m |-> Resume(m), got |-> "pending", chunk |-> <<>>]

\* the result is the machine after _dispatch and what it handed to the pending
\* request: got = "chunk" | "null" | "error", or "pending" when nothing.
p0_dispatch(m) ==
    LET r == m.reader
        live == ~r.end /\ ~r.error
    IN IF r.resolve = Null
       THEN [m |-> IF live THEN Pause(m) ELSE m, got |-> "pending", chunk |-> <<>>]
       ELSE IF Len(r.data) > 0
       THEN [m |-> [(IF live THEN Pause(m) ELSE m) EXCEPT
                        !.reader.data = Tail(@),
                        !.reader.bytesRemain =
                            IF live THEN @ ELSE @ - Len(Head(r.data)),
                        !.reader.resolve = Null],
             got |-> "chunk", chunk |-> Head(r.data)]
       ELSE IF r.end
       THEN [m |-> [m EXCEPT !.reader.resolve = Null], got |-> "null", chunk |-> <<>>]
       ELSE IF r.error
       THEN [m |-> [m EXCEPT !.reader.resolve = Null], got |-> "error", chunk |-> <<>>]
       ELSE [m |-> Resume(m), got |-> "pending", chunk |-> <<>>]

p0_readChunk(m, i) == p0_dispatch([m EXCEPT !.reader.resolve = i])

\* _readTypedArray after the fill returned, then read after that
p0_read_settle(m, i) ==
    LET o == m.ops[i]
        swap == ~o.isBuffer /\ o.endianness # nativeEndianness
        dest == IF swap /\ o.elementLength > 1
                THEN Swap(o.dest, o.blockCount * o.fillBlock, o.elementLength)
                ELSE o.dest
    IN IF swap /\ o.elementLength = 1
       THEN [m EXCEPT !.ops[i].status = "rejected", !.ops[i].err = "TypeError"]
       ELSE IF o.allowPart
       THEN [m EXCEPT !.ops[i].dest = dest, !.ops[i].status = "resolved",
                      !.ops[i].value = o.blockCount]
       ELSE IF o.blockCount * o.blockLength < o.length
       THEN [m EXCEPT !.ops[i].dest = dest, !.ops[i].status = "rejected",
                      !.ops[i].err = "NotEnoughError",
                      !.ops[i].errBlockCount = o.blockCount]
       ELSE [m EXCEPT !.ops[i].dest = dest, !.ops[i].status = "resolved"]

\* mutant of the tail of _readBuffer: the excess is not pushed back
p0_readBuffer_return_dropped(m, i) ==
    LET o == m.ops[i]
        blockCount == o.offset \div o.fillBlock
        excess == Slice(o.dest, blockCount * o.fillBlock, o.offset)
    IN p0_read_settle([m EXCEPT !.ops[i].fst = "done",
                                !.ops[i].blockCount = blockCount,
                                !.ops[i].excess = excess], i)

\* the tail of _readBuffer: floor to whole blocks, push the excess back
p0_readBuffer_return(m, i) ==
    LET o == m.ops[i]
        blockCount == o.offset \div o.fillBlock
        excess == Slice(o.dest, blockCount * o.fillBlock, o.offset)
        m1 == p0_unreadChunk(m, excess)
    IN p0_read_settle([m1 EXCEPT !.ops[i].fst = "done",
                                 !.ops[i].blockCount = blockCount,
                                 !.ops[i].excess = excess], i)

\* one turn of the loop of _readBuffer once the chunk is there
p0_readBuffer_copy(m, i, chunk) ==
    LET o == CopyChunk(m.ops[i], chunk)
        m1 == [m EXCEPT !.ops[i] = o]
    IN IF o.offset - m.ops[i].offset = Len(chunk)
       THEN m1
       ELSE p0_unreadChunk(m1, o.rest)

\* mutant of _readBuffer: a fill that throws pushes back what it copied
RECURSIVE p0_readBuffer_resume_pushBack(_, _)
p0_readBuffer_resume_pushBack(d, i) ==
    CASE d.got = "pending" -> d.m
      [] d.got = "error" ->
            [p0_unreadChunk(d.m, SubSeq(d.m.ops[i].dest, 1, d.m.ops[i].offset))
                EXCEPT !.ops[i].fst = "threw", !.ops[i].status = "rejected",
                       !.ops[i].err = "source"]
      [] d.got = "null" -> p0_readBuffer_return(d.m, i)
      [] d.got = "chunk" ->
            LET m1 == p0_readBuffer_copy(d.m, i, d.chunk)
            IN IF m1.ops[i].offset < Len(m1.ops[i].dest)
               THEN p0_readBuffer_resume_pushBack(p0_readChunk(m1, i), i)
               ELSE p0_readBuffer_return(m1, i)

\* _readBuffer from the point where its await returns, run until the fill
\* awaits a chunk that is not there yet, returns or throws
RECURSIVE p0_readBuffer_resume(_, _)
p0_readBuffer_resume(d, i) ==
    CASE d.got = "pending" -> d.m
      [] d.got = "error" ->
            [d.m EXCEPT !.ops[i].fst = "threw", !.ops[i].status = "rejected",
                        !.ops[i].err = "source"]
      [] d.got = "null" -> p0_readBuffer_return(d.m, i)
      [] d.got = "chunk" ->
            LET m1 == p0_readBuffer_copy(d.m, i, d.chunk)
            IN IF m1.ops[i].offset < Len(m1.ops[i].dest)
               THEN p0_readBuffer_resume(p0_readChunk(m1, i), i)
               ELSE p0_readBuffer_return(m1, i)

p0_readBuffer(m, i) ==
    IF m.ops[i].offset < Len(m.ops[i].dest)
    THEN p0_readBuffer_resume(p0_readChunk(m, i), i)
    ELSE p0_readBuffer_return(m, i)

\* a handler's closing this._dispatch(), with the fill it wakes
p0_handlerDispatch(m) ==
    LET i == m.reader.resolve
        d == p0_dispatch(m)
    IN IF i = Null THEN d.m ELSE p0_readBuffer_resume(d, i)

\* the caller calls read(container, {blockLength, endianness, allowPart})
p0_read(c, blockLength, endianness, allowPart) ==
    /\ revision = "part_000"
    /\ Len(ops) < MaxOps
    /\ \A k \in 1..Len(ops) : Settled(ops[k])
    /\ Called(p0_readBuffer(
           [Machine EXCEPT !.ops =
               Append(Retire, NewOp(c, blockLength, endianness, allowPart))],
           Len(ops) + 1))

\* 'data' on _stream
p0_dataHandler ==
    /\ revision = "part_000"
    /\ stream.flowing /\ stream.onData /\ stream.buffer # <<>>
    /\ Handled(p0_handlerDispatch(
           [Machine EXCEPT !.stream.buffer = Tail(@),
                           !.reader.data = Append(@, Head(stream.buffer))]))

\* 'end' on _stream
p0_endHandler ==
    /\ revision = "part_000"
    /\ stream.flowing /\ stream.buffer = <<>> /\ stream.ended
    /\ ~stream.endEmitted /\ stream.onEnd
    /\ Handled(p0_handlerDispatch(
           [Machine EXCEPT !.stream.endEmitted = TRUE,
                           !.stream.onEnd = FALSE,
                           !.stream.onData = FALSE,
                           !.source.onError = FALSE,
                           !.reader.end = TRUE,
                           !.reader.bytesRemain = SumLen(reader.data)]))

\* mutant of _errorHandler: the 'end' listener stays on _stream
p0_errorHandler_keepsEnd ==
    /\ revision = "part_000"
    /\ ~source.failed
    /\ source.onError
    /\ Handled(p0_handlerDispatch(
           [Machine EXCEPT !.source.failed = TRUE,
                           !.source.onError = FALSE,
                           !.stream.onData = FALSE,
                           !.reader.error = TRUE,
                           !.reader.bytesRemain = SumLen(reader.data)]))

\* 'error' on the source, which emits it at most once, before or after it
\* ended, and is heard while the once('error') listener is attached
p0_errorHandler ==
    /\ revision = "part_000"
    /\ ~source.failed
    /\ source.onError
    /\ Handled(p0_handlerDispatch(
           [Machine EXCEPT !.source.failed = TRUE,
                           !.source.onError = FALSE,
                           !.stream.onData = FALSE,
                           !.stream.onEnd = FALSE,
                           !.reader.error = TRUE,
                           !.reader.bytesRemain = SumLen(reader.data)]))

p0_Calls ==
    \E c \in Containers, blockLength \in 1..MaxBlock, allowPart \in BOOLEAN :
        \E endianness \in IF c.isBuffer THEN {nativeEndianness} ELSE {"LE", "BE"} :
            p0_read(c, blockLength, endianness, allowPart)

p0_Steps ==
    \/ p0_Calls
    \/ p0_dataHandler
    \/ p0_endHandler
    \/ p0_errorHandler

-----------------------------------------------------------------------------
(* Revision part_001.  reader = [BYTES_READ, BYTES_UNREAD, RESOLVE,         *)
(* typeError]; INPUT is the variable stream.  RESOLVE is the index in ops   *)
(* of the fill whose resolver is stored, Null when none; typeError records  *)
(* that onData called a null resolver.                                      *)

p1_Reader ==
    [BYTES_READ |-> 0, BYTES_UNREAD |-> Undefined, RESOLVE |-> Null,
     typeError |-> FALSE]

p1_READ_CHUNK(m, i) ==
    IF m.reader.BYTES_UNREAD = 0
    THEN [m |-> m, got |-> "null", chunk |-> <<>>]
    ELSE [m |-> Resume([m EXCEPT !.reader.RESOLVE = i]), got |-> "pending",
          chunk |-> <<>>]

\* mutants of UNREAD_CHUNK: push to the back; after the end, no count
p1_UNREAD_CHUNK_push(m, chunk) ==
    IF Len(chunk) = 0 THEN m
    ELSE IF m.reader.BYTES_UNREAD # 0
    THEN [m EXCEPT !.stream.buffer = Append(@, chunk)]
    ELSE [m EXCEPT !.stream = [buffer |-> <<chunk>>, flowing |-> FALSE,
                               ended |-> TRUE, endEmitted |-> FALSE,
                               onData |-> FALSE, onEnd |-> FALSE],
                   !.reader.BYTES_UNREAD = Len(chunk)]

p1_UNREAD_CHUNK_uncounted(m, chunk) ==
    IF Len(chunk) = 0 THEN m
    ELSE IF m.reader.BYTES_UNREAD # 0
    THEN [m EXCEPT !.stream.buffer = <<chunk>> \o @]
    ELSE [m EXCEPT !.stream = [buffer |-> <<chunk>>, flowing |-> FALSE,
                               ended |-> TRUE, endEmitted |-> FALSE,
                               onData |-> FALSE, onEnd |-> FALSE]]

\* INPUT.unshift(chunk), or after the end a fresh PassThrough that was ended
\* with the chunk and has none of the Reader's listeners
p1_UNREAD_CHUNK(m, chunk) ==
    IF Len(chunk) = 0 THEN m
    ELSE IF m.reader.BYTES_UNREAD # 0
    THEN [m EXCEPT !.stream.buffer = <<chunk>> \o @]
    ELSE [m EXCEPT !.stream = [buffer |-> <<chunk>>, flowing |-> FALSE,
                               ended |-> TRUE, endEmitted |-> FALSE,
                               onData |-> FALSE, onEnd |-> FALSE],
                   !.reader.BYTES_UNREAD = Len(chunk)]

\* READ_TYPED_ARRAY after the fill returned; read(allowPart) and the promise
\* it returned.  read without allowPart has settled when it was called.
p1_read_settle(m, i) ==
    LET o == m.ops[i]
        swap == ~o.isBuffer /\ o.endianness # nativeEndianness
        dest == IF swap /\ o.elementLength > 1
                THEN Swap(o.dest, o.blockCount * o.fillBlock, o.elementLength)
                ELSE o.dest
    IN IF ~o.allowPart
       THEN [m EXCEPT !.ops[i].dest = dest]
       ELSE IF swap /\ o.elementLength = 1
       THEN [m EXCEPT !.ops[i].status = "rejected", !.ops[i].err = "TypeError"]
       ELSE [m EXCEPT !.ops[i].dest = dest, !.ops[i].status = "resolved",
                      !.ops[i].value = o.blockCount]

\* the method table: read<Type> and the typed array it fills
ScalarKinds ==
    { [name |-> "Int8", elementLength |-> 1],
      [name |-> "Int16", elementLength |-> 1],
      [name |-> "Int32", elementLength |-> 4],
      [name |-> "UInt8", elementLength |-> 1],
      [name |-> "UInt16", elementLength |-> 2],
      [name |-> "UInt32", elementLength |-> 4],
      [name |-> "Float", elementLength |-> 4],
      [name |-> "Double", elementLength |-> 8] }

\* read<Type> after READ_TYPED_ARRAY: the swap (swap8 is no method of Buffer),
\* then EndOfInput for no element, else typedArray[0]
p1_readScalar_settle(m, i) ==
    LET o == m.ops[i]
        swap == o.endianness # nativeEndianness
        dest == IF swap
                THEN Swap(o.dest, o.blockCount * o.fillBlock, o.elementLength)
                ELSE o.dest
    IN IF swap /\ o.elementLength = 1
       THEN [m EXCEPT !.ops[i].status = "rejected", !.ops[i].err = "TypeError"]
       ELSE IF o.blockCount = 0
       THEN [m EXCEPT !.ops[i].dest = dest, !.ops[i].status = "rejected",
                      !.ops[i].err = "EndOfInput"]
       ELSE [m EXCEPT !.ops[i].dest = dest, !.ops[i].status = "resolved",
                      !.ops[i].element =
                          ElementAt(dest, 0, o.elementLength, nativeEndianness)]

\* readString after READ_BUFFER
p1_readString_settle(m, i) ==
    LET o == m.ops[i]
    IN IF o.blockCount = 0
       THEN [m EXCEPT !.ops[i].status = "rejected", !.ops[i].err = "EndOfInput"]
       ELSE [m EXCEPT !.ops[i].status = "resolved",
                      !.ops[i].element = toString(o.dest)]

\* the caller of the fill that returned
p1_settle(m, i) ==
    CASE m.ops[i].method = "read" -> p1_read_settle(m, i)
      [] m.ops[i].method = "readString" -> p1_readString_settle(m, i)
      [] OTHER -> p1_readScalar_settle(m, i)

p1_READ_BUFFER_return(m, i) ==
    LET o == m.ops[i]
        blockCount == o.offset \div o.fillBlock
        excess == Slice(o.dest, blockCount * o.fillBlock, o.offset)
        m1 == p1_UNREAD_CHUNK(m, excess)
    IN p1_settle([m1 EXCEPT !.ops[i].fst = "done",
                                 !.ops[i].blockCount = blockCount,
                                 !.ops[i].excess = excess], i)

p1_READ_BUFFER_copy(m, i, chunk) ==
    LET o == CopyChunk(m.ops[i], chunk)
        m1 == [m EXCEPT !.ops[i] = o]
    IN IF o.offset - m.ops[i].offset = Len(chunk)
       THEN m1
       ELSE p1_UNREAD_CHUNK(m1, o.rest)

RECURSIVE p1_READ_BUFFER_resume(_, _)
p1_READ_BUFFER_resume(d, i) ==
    CASE d.got = "pending" -> d.m
      [] d.got = "null" -> p1_READ_BUFFER_return(d.m, i)
      [] d.got = "chunk" ->
            LET m1 == p1_READ_BUFFER_copy(d.m, i, d.chunk)
            IN IF m1.ops[i].offset < Len(m1.ops[i].dest)
               THEN p1_READ_BUFFER_resume(p1_READ_CHUNK(m1, i), i)
               ELSE p1_READ_BUFFER_return(m1, i)

p1_READ_BUFFER(m, i) ==
    IF m.ops[i].offset < Len(m.ops[i].dest)
    THEN p1_READ_BUFFER_resume(p1_READ_CHUNK(m, i), i)
    ELSE p1_READ_BUFFER_return(m, i)

\* what read's own promise is once its synchronous part has run: with
\* "await Buffer.isBuffer(container) ? ... : ..." blockCount is the promise of
\* the fill, so without allowPart the comparison is with NaN and read returns
p1_read_called(o) ==
    IF o.allowPart THEN o ELSE [o EXCEPT !.status = "resolved"]

\* the caller calls read(container, {blockLength, endianness, allowPart})
p1_read(c, blockLength, endianness, allowPart) ==
    /\ revision = "part_001"
    /\ Len(ops) < MaxOps
    /\ \A k \in 1..Len(ops) : Settled(ops[k])
    /\ Called(p1_READ_BUFFER(
           [Machine EXCEPT !.ops = Append(Retire,
               p1_read_called(NewOp(c, blockLength, endianness, allowPart)))],
           Len(ops) + 1))

\* the caller calls read<Type>({endianness}), read<Type>LE() or read<Type>BE()
p1_readScalar(kind, endianness) ==
    /\ revision = "part_001"
    /\ Len(ops) < MaxOps
    /\ \A k \in 1..Len(ops) : Settled(ops[k])
    /\ Called(p1_READ_BUFFER(
           [Machine EXCEPT !.ops = Append(Retire,
               [NewOp([isBuffer |-> FALSE, elementLength |-> kind.elementLength,
                       length |-> 1], 1, endianness, FALSE)
                   EXCEPT !.method = "read" \o kind.name])],
           Len(ops) + 1))

\* the caller calls readString(codeUnitCount), codeUnitCount > 0
p1_readString(codeUnitCount) ==
    /\ revision = "part_001"
    /\ Len(ops) < MaxOps
    /\ \A k \in 1..Len(ops) : Settled(ops[k])
    /\ Called(p1_READ_BUFFER(
           [Machine EXCEPT !.ops = Append(Retire,
               [NewOp([isBuffer |-> TRUE, elementLength |-> 1,
                       length |-> codeUnitCount],
                      codeUnitCount, nativeEndianness, FALSE)
                   EXCEPT !.method = "readString"])],
           Len(ops) + 1))

\* 'data' on INPUT
p1_onData ==
    /\ revision = "part_001"
    /\ stream.flowing /\ stream.onData /\ stream.buffer # <<>>
    /\ LET chunk == Head(stream.buffer)
           i == reader.RESOLVE
           m == [Machine EXCEPT
                    !.stream.buffer = Tail(@),
                    !.stream.flowing = FALSE,
                    !.reader.BYTES_READ = @ + Len(chunk),
                    !.reader.BYTES_UNREAD =
                        IF @ # Undefined THEN @ - Len(chunk) ELSE @,
                    !.reader.RESOLVE = Null]
       IN IF i = Null
          THEN Handled([m EXCEPT !.reader.typeError = TRUE])
          ELSE Handled(p1_READ_BUFFER_resume(
                   [m |-> m, got |-> "chunk", chunk |-> chunk], i))

\* 'end' on INPUT
p1_onEnd ==
    /\ revision = "part_001"
    /\ stream.flowing /\ stream.buffer = <<>> /\ stream.ended
    /\ ~stream.endEmitted /\ stream.onEnd
    /\ LET i == reader.RESOLVE
           m == [Machine EXCEPT
                    !.stream.endEmitted = TRUE,
                    !.stream.onEnd = FALSE,
                    !.stream.onData = FALSE,
                    !.reader.BYTES_UNREAD = 0,
                    !.reader.RESOLVE = Null]
       IN IF i = Null
          THEN Handled(m)
          ELSE Handled(p1_READ_BUFFER_resume(
                   [m |-> m, got |-> "null", chunk |-> <<>>], i))

p1_Calls ==
    \E c \in Containers, blockLength \in 1..MaxBlock, allowPart \in BOOLEAN :
        \E endianness \in IF c.isBuffer THEN {nativeEndianness} ELSE {"LE", "BE"} :
            p1_read(c, blockLength, endianness, allowPart)

p1_Steps ==
    \/ p1_Calls
    \/ p1_onData
    \/ p1_onEnd

-----------------------------------------------------------------------------
(* Revision reader.js.  reader = [events, bytesRemain, resolve]; an event   *)
(* is [type |-> "data" | "end" | "error", data |-> chunk].                  *)

rd_Reader == [events |-> <<>>, bytesRemain |-> Undefined, resolve |-> Null]

\* mutant of _unreadChunk: no count
rd_unreadChunk_uncounted(m, chunk) ==
    [m EXCEPT !.reader.events = <<[type |-> "data", data |-> chunk]>> \o @]

rd_unreadChunk(m, chunk) ==
    [m EXCEPT !.reader.events = <<[type |-> "data", data |-> chunk]>> \o @,
              !.reader.bytesRemain = IF @ # Undefined THEN @ + Len(chunk) ELSE @]

rd_dispatch(m) ==
    LET r == m.reader
        event == Head(r.events)
    IN IF r.resolve = Null
       THEN [m |-> m, got |-> "pending", chunk |-> <<>>]
       ELSE IF Len(r.events) = 0
       THEN [m |-> Resume(m), got |-> "pending", chunk |-> <<>>]
       ELSE IF event.type = "data"
       THEN [m |-> [m EXCEPT !.reader.events = Tail(@),
                             !.reader.resolve = Null,
                             !.reader.bytesRemain =
                                 IF @ # Undefined THEN @ - Len(event.data) ELSE @],
             got |-> "chunk", chunk |-> event.data]
       ELSE IF event.type = "end"
       THEN [m |-> [m EXCEPT !.reader.resolve = Null, !.reader.bytesRemain = 0],
             got |-> "null", chunk |-> <<>>]
       ELSE [m |-> [m EXCEPT !.reader.events = Tail(@), !.reader.resolve = Null],
             got |-> "error", chunk |-> <<>>]

rd_readChunk(m, i) == rd_dispatch([m EXCEPT !.reader.resolve = i])

rd_read_settle(m, i) ==
    LET o == m.ops[i]
        swap == ~o.isBuffer /\ o.endianness # nativeEndianness
        dest == IF swap /\ o.elementLength > 1
                THEN Swap(o.dest, o.blockCount * o.fillBlock, o.elementLength)
                ELSE o.dest
    IN IF swap /\ o.elementLength = 1
       THEN [m EXCEPT !.ops[i].status = "rejected", !.ops[i].err = "TypeError"]
       ELSE IF o.allowPart
       THEN [m EXCEPT !.ops[i].dest = dest, !.ops[i].status = "resolved",
                      !.ops[i].value = o.blockCount]
       ELSE IF o.blockCount * o.blockLength < o.length
       THEN [m EXCEPT !.ops[i].dest = dest, !.ops[i].status = "rejected",
                      !.ops[i].err = "NotEnoughError",
                      !.ops[i].errBlockCount = o.blockCount]
       ELSE [m EXCEPT !.ops[i].dest = dest, !.ops[i].status = "resolved"]

rd_readBuffer_return(m, i) ==
    LET o == m.ops[i]
        blockCount == o.offset \div o.fillBlock
        excess == Slice(o.dest, blockCount * o.fillBlock, o.offset)
        m1 == rd_unreadChunk(m, excess)
    IN rd_read_settle([m1 EXCEPT !.ops[i].fst = "done",
                                 !.ops[i].blockCount = blockCount,
                                 !.ops[i].excess = excess], i)

rd_readBuffer_copy(m, i, chunk) ==
    LET o == CopyChunk(m.ops[i], chunk)
        m1 == [m EXCEPT !.ops[i] = o]
    IN IF o.offset - m.ops[i].offset = Len(chunk)
       THEN m1
       ELSE rd_unreadChunk(m1, o.rest)

RECURSIVE rd_readBuffer_resume(_, _)
rd_readBuffer_resume(d, i) ==
    CASE d.got = "pending" -> d.m
      [] d.got = "error" ->
            [d.m EXCEPT !.ops[i].fst = "threw", !.ops[i].status = "rejected",
                        !.ops[i].err = "source"]
      [] d.got = "null" -> rd_readBuffer_return(d.m, i)
      [] d.got = "chunk" ->
            LET m1 == rd_readBuffer_copy(d.m, i, d.chunk)
            IN IF m1.ops[i].offset < Len(m1.ops[i].dest)
               THEN rd_readBuffer_resume(rd_readChunk(m1, i), i)
               ELSE rd_readBuffer_return(m1, i)

rd_readBuffer(m, i) ==
    IF m.ops[i].offset < Len(m.ops[i].dest)
    THEN rd_readBuffer_resume(rd_readChunk(m, i), i)
    ELSE rd_readBuffer_return(m, i)

rd_handlerDispatch(m) ==
    LET i == m.reader.resolve
        d == rd_dispatch(m)
    IN IF i = Null THEN d.m ELSE rd_readBuffer_resume(d, i)

rd_read(c, blockLength, endianness, allowPart) ==
    /\ revision = "reader"
    /\ Len(ops) < MaxOps
    /\ \A k \in 1..Len(ops) : Settled(ops[k])
    /\ Called(rd_readBuffer(
           [Machine EXCEPT !.ops =
               Append(Retire, NewOp(c, blockLength, endianness, allowPart))],
           Len(ops) + 1))

rd_dataHandler ==
    /\ revision = "reader"
    /\ stream.flowing /\ stream.onData /\ stream.buffer # <<>>
    /\ Handled(rd_handlerDispatch(
           [Machine EXCEPT
               !.stream.buffer = Tail(@),
               !.stream.flowing = FALSE,
               !.reader.events =
                   Append(@, [type |-> "data", data |-> Head(stream.buffer)])]))

rd_endHandler ==
    /\ revision = "reader"
    /\ stream.flowing /\ stream.buffer = <<>> /\ stream.ended
    /\ ~stream.endEmitted /\ stream.onEnd
    /\ Handled(rd_handlerDispatch(
           [Machine EXCEPT
               !.stream.endEmitted = TRUE,
               !.stream.onEnd = FALSE,
               !.stream.onData = FALSE,
               !.source.onError = FALSE,
               !.reader.events = Append(@, [type |-> "end", data |-> <<>>])]))

rd_errorHandler ==
    /\ revision = "reader"
    /\ ~source.ended /\ ~source.failed
    /\ source.onError
    /\ Handled(rd_handlerDispatch(
           [Machine EXCEPT
               !.source.failed = TRUE,
               !.source.onError = FALSE,
               !.stream.flowing = FALSE,
               !.reader.events = Append(@, [type |-> "error", data |-> <<>>])]))

rd_Calls ==
    \E c \in Containers, blockLength \in 1..MaxBlock, allowPart \in BOOLEAN :
        \E endianness \in IF c.isBuffer THEN {nativeEndianness} ELSE {"LE", "BE"} :
            rd_read(c, blockLength, endianness, allowPart)

rd_Steps ==
    \/ rd_Calls
    \/ rd_dataHandler
    \/ rd_endHandler
    \/ rd_errorHandler

-----------------------------------------------------------------------------
(* src/proreader.js, the ProReader: revision "proreader".  reader = [error, *)
(* data, end, bytesRemain, resolve] as in part_000; only the scalar reads   *)
(* read<Type>(endianness), read<Type>LE() and read<Type>BE() are callers.   *)

pr_Reader ==
    [error |-> FALSE, data |-> <<>>, end |-> FALSE, bytesRemain |-> Undefined,
     resolve |-> Null]

pr_ungetChunk(m, chunk) ==
    [m EXCEPT !.reader.data = <<chunk>> \o @,
              !.reader.bytesRemain =
                  IF m.reader.end \/ m.reader.error THEN @ + Len(chunk) ELSE @]

pr_dispatch(m) ==
    LET r == m.reader
        live == ~r.end /\ ~r.error
    IN IF r.resolve = Null
       THEN [m |-> IF live THEN Pause(m) ELSE m, got |-> "pending", chunk |-> <<>>]
       ELSE IF Len(r.data) > 0
       THEN [m |-> [(IF live THEN Pause(m) ELSE m) EXCEPT
                        !.reader.data = Tail(@),
                        !.reader.bytesRemain =
                            IF live THEN @ ELSE @ - Len(Head(r.data)),
                        !.reader.resolve = Null],
             got |-> "chunk", chunk |-> Head(r.data)]
       ELSE IF r.end
       THEN [m |-> [m EXCEPT !.reader.resolve = Null], got |-> "null", chunk |-> <<>>]
       ELSE IF r.error
       THEN [m |-> [m EXCEPT !.reader.resolve = Null], got |-> "error", chunk |-> <<>>]
       ELSE [m |-> Resume(m), got |-> "pending", chunk |-> <<>>]

pr_getChunk(m, i) == pr_dispatch([m EXCEPT !.reader.resolve = i])

\* _fillTypedArray once _fillBuffer returned, then read<Type> once
\* _fillTypedArray returned
pr_fillTypedArray_return(m, i) ==
    LET o == m.ops[i]
        length == o.offset \div o.elementLength
        chunk == Slice(o.dest, length * o.elementLength, o.offset)
        m1 == [(IF Len(chunk) > 0 THEN pr_ungetChunk(m, chunk) ELSE m) EXCEPT
                  !.ops[i].fst = "done", !.ops[i].blockCount = length,
                  !.ops[i].excess = chunk]
        swap == o.endianness # nativeEndianness
        dest == IF swap THEN Swap(o.dest, length * o.elementLength, o.elementLength)
                ELSE o.dest
    IN IF swap /\ o.elementLength = 1
       THEN [m1 EXCEPT !.ops[i].status = "rejected", !.ops[i].err = "TypeError"]
       ELSE IF length = 0
       THEN [m1 EXCEPT !.ops[i].dest = dest, !.ops[i].status = "rejected",
                       !.ops[i].err = "NotEnoughError"]
       ELSE [m1 EXCEPT !.ops[i].dest = dest, !.ops[i].status = "resolved",
                       !.ops[i].element =
                           ElementAt(dest, 0, o.elementLength, nativeEndianness)]

pr_fillBuffer_copy(m, i, chunk) ==
    LET o == CopyChunk(m.ops[i], chunk)
        m1 == [m EXCEPT !.ops[i] = o]
    IN IF o.offset - m.ops[i].offset = Len(chunk)
       THEN m1
       ELSE pr_ungetChunk(m1, o.rest)

RECURSIVE pr_fillBuffer_resume(_, _)
pr_fillBuffer_resume(d, i) ==
    CASE d.got = "pending" -> d.m
      [] d.got = "error" ->
            [d.m EXCEPT !.ops[i].fst = "threw", !.ops[i].status = "rejected",
                        !.ops[i].err = "source"]
      [] d.got = "null" -> pr_fillTypedArray_return(d.m, i)
      [] d.got = "chunk" ->
            LET m1 == pr_fillBuffer_copy(d.m, i, d.chunk)
            IN IF m1.ops[i].offset < Len(m1.ops[i].dest)
               THEN pr_fillBuffer_resume(pr_getChunk(m1, i), i)
               ELSE pr_fillTypedArray_return(m1, i)

pr_fillBuffer(m, i) ==
    IF m.ops[i].offset < Len(m.ops[i].dest)
    THEN pr_fillBuffer_resume(pr_getChunk(m, i), i)
    ELSE pr_fillTypedArray_return(m, i)

pr_handlerDispatch(m) ==
    LET i == m.reader.resolve
        d == pr_dispatch(m)
    IN IF i = Null THEN d.m ELSE pr_fillBuffer_resume(d, i)

\* the byte order read<Type>LE() and read<Type>BE() hand to read<Type>
pr_wrapperEndianness(wrapper) ==
    CASE wrapper = "LE" -> "LE"
      [] wrapper = "BE" -> "LE"

\* the caller calls read<Type>LE() or read<Type>BE()
pr_readScalar(kind, wrapper) ==
    /\ revision = "proreader"
    /\ Len(ops) < MaxOps
    /\ \A k \in 1..Len(ops) : Settled(ops[k])
    /\ Called(pr_fillBuffer(
           [Machine EXCEPT !.ops = Append(Retire,
               [NewOp([isBuffer |-> FALSE, elementLength |-> kind.elementLength,
                       length |-> 1], 1, pr_wrapperEndianness(wrapper), FALSE)
                   EXCEPT !.method = "read" \o kind.name \o wrapper])],
           Len(ops) + 1))

pr_dataHandler ==
    /\ revision = "proreader"
    /\ stream.flowing /\ stream.onData /\ stream.buffer # <<>>
    /\ Handled(pr_handlerDispatch(
           [Machine EXCEPT !.stream.buffer = Tail(@),
                           !.reader.data = Append(@, Head(stream.buffer))]))

pr_endHandler ==
    /\ revision = "proreader"
    /\ stream.flowing /\ stream.buffer = <<>> /\ stream.ended
    /\ ~stream.endEmitted /\ stream.onEnd
    /\ Handled(pr_handlerDispatch(
           [Machine EXCEPT !.stream.endEmitted = TRUE,
                           !.stream.onEnd = FALSE,
                           !.stream.onData = FALSE,
                           !.source.onError = FALSE,
                           !.reader.end = TRUE,
                           !.reader.bytesRemain = SumLen(reader.data)]))

pr_errorHandler ==
    /\ revision = "proreader"
    /\ ~source.ended /\ ~source.failed
    /\ source.onError
    /\ Handled(pr_handlerDispatch(
           [Machine EXCEPT !.source.failed = TRUE,
                           !.source.onError = FALSE,
                           !.stream.onData = FALSE,
                           !.stream.onEnd = FALSE,
                           !.reader.error = TRUE,
                           !.reader.bytesRemain = SumLen(reader.data)]))

pr_ScalarCalls ==
    \E kind \in ScalarKinds, wrapper \in {"LE", "BE"} : pr_readScalar(kind, wrapper)

-----------------------------------------------------------------------------

Init ==
    /\ revision \in {"part_000", "part_001", "reader"}
    /\ nativeEndianness \in {"LE", "BE"}
    /\ source = [written |-> 0, ended |-> FALSE, failed |-> FALSE, onError |-> TRUE]
    /\ stream = NewStream
    /\ reader = CASE revision = "part_000" -> p0_Reader
                  [] revision = "part_001" -> p1_Reader
                  [] revision = "reader" -> rd_Reader
    /\ ops = <<>>
    /\ past = [handed |-> <<>>, excess |-> <<>>, rest |-> <<>>, rejected |-> 0]

SourceStep ==
    \/ \E k \in 1..MaxChunk : SourceWrite(k)
    \/ SourceEnd

\* the three revisions, each on every source and every caller
Next ==
    \/ SourceStep
    \/ Discard
    \/ EndUnobserved
    \/ p0_Steps
    \/ p1_Steps
    \/ rd_Steps

Spec == Init /\ [][Next]_vars

\* revision part_000 alone, on a source that fails, if it does, before it ends
p0_Init == Init /\ revision = "part_000"

p0_Next ==
    \/ SourceStep
    \/ Discard
    \/ p0_Calls
    \/ p0_dataHandler
    \/ p0_endHandler
    \/ ~source.ended /\ p0_errorHandler

p0_Spec == p0_Init /\ [][p0_Next]_vars

\* one fill on a fresh Reader of part_000 or part_001, on a source that does
\* not fail
Fill_Init == Init /\ revision \in {"part_000", "part_001"}

Fill_Next ==
    \/ SourceStep
    \/ Len(ops) = 0 /\ p0_Calls
    \/ p0_dataHandler
    \/ p0_endHandler
    \/ Len(ops) = 0 /\ p1_Calls
    \/ p1_onData
    \/ p1_onEnd

Fill_Spec == Fill_Init /\ [][Fill_Next]_vars

\* revision part_001 under a caller that issues scalar reads, one at a time
p1_Init == Init /\ revision = "part_001"

p1_ScalarCalls ==
    \E kind \in ScalarKinds, endianness \in {"LE", "BE"} :
        p1_readScalar(kind, endianness)

Scalar_Next ==
    \/ SourceStep
    \/ Discard
    \/ EndUnobserved
    \/ p1_ScalarCalls
    \/ p1_onData
    \/ p1_onEnd

Scalar_Spec == p1_Init /\ [][Scalar_Next]_vars

\* revision part_001 under a caller that issues readString, one at a time
p1_StringCalls == \E codeUnitCount \in 1..MaxLen : p1_readString(codeUnitCount)

String_Next ==
    \/ SourceStep
    \/ Discard
    \/ EndUnobserved
    \/ p1_StringCalls
    \/ p1_onData
    \/ p1_onEnd

String_Spec == p1_Init /\ [][String_Next]_vars

\* the byte sequences of one element of 2, 4 or 8 bytes
ElementBytes ==
    UNION {[1..elementLength -> 0..MaxByte] : elementLength \in {2, 4, 8}}

\* a fresh Reader whose source has written one element, any bytes, as one
\* chunk; source.content keeps what was written
ElementWritten ==
    /\ nativeEndianness \in {"LE", "BE"}
    /\ \E chunk \in ElementBytes :
          /\ source = [written |-> Len(chunk), ended |-> FALSE, failed |-> FALSE,
                       onError |-> TRUE, content |-> chunk]
          /\ stream = [NewStream EXCEPT !.buffer = <<chunk>>]
    /\ ops = <<>>
    /\ past = [handed |-> <<>>, excess |-> <<>>, rest |-> <<>>, rejected |-> 0]

\* one scalar read of part_001 on such a source
Element_Init == ElementWritten /\ revision = "part_001" /\ reader = p1_Reader

Element_Next ==
    \/ SourceEnd
    \/ Len(ops) = 0 /\ p1_ScalarCalls
    \/ p1_onData
    \/ p1_onEnd

Element_Spec == Element_Init /\ [][Element_Next]_vars

\* one read<Type>LE() or read<Type>BE() of src/proreader.js on such a source
Wrapper_Init == ElementWritten /\ revision = "proreader" /\ reader = pr_Reader

Wrapper_Next ==
    \/ SourceEnd
    \/ Len(ops) = 0 /\ pr_ScalarCalls
    \/ pr_dataHandler
    \/ pr_endHandler
    \/ pr_errorHandler

Wrapper_Spec == Wrapper_Init /\ [][Wrapper_Next]_vars

\* the demo script on src/reader.js: the chunks it writes, then the end,
\* unless the source fails before; its reads read(a, {endianness: 'BE'}) and
\* read(a, {allowPart: true}) of a Uint32Array(2), issued at any time
DemoChunks == << <<1, 0, 0, 0>>, <<2, 0, 0>>, <<0, 3>>, <<0, 0, 0, 4>>, <<0, 0>> >>

DemoArray == [isBuffer |-> FALSE, elementLength |-> 4, length |-> 2]

Demo_Init ==
    /\ revision = "reader"
    /\ nativeEndianness \in {"LE", "BE"}
    /\ source = [written |-> 0, ended |-> FALSE, failed |-> FALSE, onError |-> TRUE]
    /\ stream = NewStream
    /\ reader = rd_Reader
    /\ ops = <<>>
    /\ past = [handed |-> <<>>, excess |-> <<>>, rest |-> <<>>, rejected |-> 0]

DemoWrite ==
    /\ ~source.ended /\ ~source.failed
    /\ \E k \in 1..Len(DemoChunks) :
          /\ SumLen(SubSeq(DemoChunks, 1, k - 1)) = source.written
          /\ source' = [source EXCEPT !.written = @ + Len(DemoChunks[k])]
          /\ stream' = [stream EXCEPT !.buffer = Append(@, DemoChunks[k])]
    /\ UNCHANGED <<revision, nativeEndianness, reader, ops, past>>

DemoEnd == source.written = SumLen(DemoChunks) /\ SourceEnd

DemoReadBE == Len(ops) = 0 /\ rd_read(DemoArray, 1, "BE", FALSE)

DemoReadPart == Len(ops) = 1 /\ rd_read(DemoArray, 1, nativeEndianness, TRUE)

Demo_Next ==
    \/ DemoWrite
    \/ DemoEnd
    \/ DemoReadBE
    \/ DemoReadPart
    \/ rd_dataHandler
    \/ rd_endHandler
    \/ rd_errorHandler

Demo_Spec == Demo_Init /\ [][Demo_Next]_vars

-----------------------------------------------------------------------------
(* Vocabulary of the properties.                                            *)

OpIds == 1..Len(ops)

HeldByFills == past.handed \o Flatten([i \in OpIds |-> Held(ops[i])])

\* the source bytes that have reached the Reader's 'data' handler
Arrived == source.written - SumLen(stream.buffer)

Prefix(s, n) == SubSeq(s, 1, Min(n, Len(s)))

-----------------------------------------------------------------------------
(* C1: in part_001, read without allowPart rejects with EndOfInput, with    *)
(* the achieved blockCount attached, whenever the source ended before its   *)
(* fill had as many whole blocks as the container holds.                    *)
C1_EndOfInputOnShortRead ==
    revision = "part_001" =>
        \A i \in OpIds :
            LET o == ops[i]
            IN (~o.allowPart /\ o.fst = "done" /\ o.offset < Len(o.dest)
                /\ o.blockCount * o.blockLength < o.length)
               => (o.status = "rejected" /\ o.err = "EndOfInput"
                   /\ o.errBlockCount = o.blockCount)

(* C2: in part_001, with every public call issued after the promise of the  *)
(* previous one settled, at most one chunk request is pending and 'data'    *)
(* never fires without a stored resolver.                                   *)
C2_OnePendingRequest ==
    revision = "part_001" =>
        /\ Cardinality({i \in OpIds : ops[i].fst = "await"}) <= 1
        /\ ~reader.typeError

(* C3: in part_000, with no source failure, the bytes held by the fills in  *)
(* call order followed by the queue front to back are exactly the source    *)
(* bytes that have arrived, in order.                                       *)
C3_NoByteLostOrReordered ==
    (revision = "part_000" /\ ~reader.error) =>
        HeldByFills \o Flatten(reader.data) = Bytes(0, Arrived)

C3_Witness ==
    /\ revision = "part_000" /\ ~reader.error
    /\ Len(ops) = 2
    /\ past.handed # <<>> /\ past.excess # <<>> /\ past.rest # <<>>
    /\ ops[2].fst = "done"
    /\ Len(WholeBlocks(ops[2])) = Len(Leftover(past))

(* C4: in part_001, when a fill pushed back r > 0 bytes, the next read of r *)
(* bytes gets exactly those bytes: what it has copied so far followed by    *)
(* the front of the queue is the pushed-back sequence, and once it returned *)
(* it has copied all r.                                                     *)
C4_PushBackRoundTrip ==
    (revision = "part_001" /\ Leftover(past) # <<>>
     /\ Len(ops[Len(ops)].dest) = Len(Leftover(past))) =>
        LET x == Leftover(past)
            n == ops[Len(ops)]
            got == SubSeq(SourceOrder(n), 1, n.offset)
        IN /\ got \o Prefix(Flatten(stream.buffer), Len(x) - n.offset) = x
           /\ n.fst = "done" => n.offset = Len(x)

(* C5: in part_001, with a source that ends, every read settles: no read   *)
(* is pending in a state in which the source and the stream have nothing    *)
(* left to happen.                                                          *)
p1_Events ==
    \/ \E k \in 1..MaxChunk : SourceWrite(k)
    \/ SourceEnd
    \/ Discard
    \/ EndUnobserved
    \/ p1_onData
    \/ p1_onEnd

C5_NoReadSuspendedForever ==
    (revision = "part_001" /\ \E i \in OpIds : ~Settled(ops[i]))
        => ENABLED p1_Events

(* C6: in part_001, a read(buffer) that got its buffer.length bytes has     *)
(* advanced bytesRead by buffer.length, and after any sequence of such      *)
(* reads bytesRead is the number of source bytes handed to callers.         *)
C6_BytesReadCountsOnce ==
    revision = "part_001" =>
        /\ (Len(ops) = 1 /\ ops[1].fst = "done" /\ ops[1].isBuffer
            /\ ops[1].blockLength = 1 /\ ops[1].offset = Len(ops[1].dest))
           => reader.BYTES_READ = Len(ops[1].dest)
        /\ (Len(ops) > 1 /\ \A i \in OpIds : ops[i].fst # "await")
           => reader.BYTES_READ = Len(HeldByFills)

(* C7: in part_000 and part_001, the first fill (queue empty, no source     *)
(* failure) with destination length D and block length L, on a source of T  *)
(* bytes in total, returns floor(min(D,T)/L), has the first blockCount*L    *)
(* source bytes in the destination, and has pushed back the                 *)
(* min(D,T) - blockCount*L bytes copied past the last whole block.          *)
C7_Queue == IF revision = "part_000" THEN reader.data ELSE stream.buffer

C7_FillResult ==
    (revision \in {"part_000", "part_001"} /\ ~source.failed
     /\ Len(ops) >= 1 /\ ops[1].fst = "done") =>
        LET o == ops[1]
            D == Len(o.dest)
            L == o.fillBlock
            copied == Min(D, source.written)
            blockCount == copied \div L
        IN /\ (~source.ended => source.written >= D)
           /\ o.blockCount = blockCount
           /\ WholeBlocks(o) = Bytes(0, blockCount * L)
           /\ o.excess = Bytes(blockCount * L, copied - blockCount * L)
           /\ (Len(ops) = 1 /\ o.excess # <<>>)
              => (C7_Queue # <<>> /\ Head(C7_Queue) = o.excess)

C7_Witness ==
    /\ revision \in {"part_000", "part_001"} /\ ~source.failed
    /\ Len(ops) = 1 /\ ops[1].fst = "done"
    /\ ops[1].blockCount = 1 /\ ops[1].fillBlock = 2 /\ Len(ops[1].dest) = 3
    /\ ops[1].excess # <<>> /\ ops[1].rest # <<>>

(* C8: in part_000, a source failure rejects exactly one chunk request.     *)
C8_FailureDeliveredOnce ==
    revision = "part_000" =>
        past.rejected + Cardinality({i \in OpIds : ops[i].err = "source"}) <= 1

(* C9: in reader.js, after a source failure was delivered to a request, no  *)
(* later request gets a chunk and the stream is not resumed.                *)
C9_NothingAfterFailure ==
    revision = "reader" =>
        /\ (past.rejected > 0 \/ \E i \in OpIds : ops[i].err = "source")
           => ~stream.flowing
        /\ past.rejected > 0 => \A i \in OpIds : ops[i].offset = 0

(* C10: in part_000, bytesRemain is undefined until the end of input was    *)
(* observed and is then the sum of the lengths of the queued chunks.        *)
C10_Original ==
    revision = "part_000" =>
        /\ ~reader.end => reader.bytesRemain = Undefined
        /\ reader.end => reader.bytesRemain = SumLen(reader.data)

(* C10, amended: in part_000, bytesRemain is undefined until the end of     *)
(* input or a source failure was observed and is from then on the sum of    *)
(* the lengths of the queued chunks (so 0 exactly when no byte is queued).  *)
C10_BytesRemain ==
    revision = "part_000" =>
        /\ (~reader.end /\ ~reader.error) => reader.bytesRemain = Undefined
        /\ (reader.end \/ reader.error) =>
              reader.bytesRemain = SumLen(reader.data)

C10_Witness ==
    /\ revision = "part_000" /\ reader.end /\ Len(ops) > 0
    /\ ops[Len(ops)].fst = "done"
    /\ ops[Len(ops)].offset < Len(ops[Len(ops)].dest)
    /\ ops[Len(ops)].excess # <<>>
    /\ reader.bytesRemain = Len(ops[Len(ops)].excess)

-----------------------------------------------------------------------------
(* Scalar reads and readString of part_001.                                 *)

Last == ops[Len(ops)]

IsScalar(o) == o.method \notin {"read", "readString"}

\* the number of bytes the name of a scalar read states
NameWidth(method) ==
    CASE method \in {"readInt8", "readUInt8"} -> 1
      [] method \in {"readInt16", "readUInt16"} -> 2
      [] method \in {"readInt32", "readUInt32", "readFloat"} -> 4
      [] method = "readDouble" -> 8

\* the bytes of the source not handed to a caller when the last call was issued
RemainAtCall == source.written - Len(past.handed)

(* C11: in part_001 a scalar read that succeeds has consumed as many bytes  *)
(* as its name states (1, 2, 4 or 8), the bytes right after those the reads *)
(* before it consumed.                                                      *)
C11_ScalarConsumesItsWidth ==
    (revision = "part_001" /\ Len(ops) > 0 /\ IsScalar(Last)
     /\ Last.status = "resolved") =>
        /\ Len(WholeBlocks(Last)) = NameWidth(Last.method)
        /\ WholeBlocks(Last) = Bytes(Len(past.handed), NameWidth(Last.method))

(* C14: in part_001, when the source has ended with fewer bytes left than   *)
(* the width the scalar read's name states, the read (with the native byte  *)
(* order, as by default) fails with EndOfInput and the bytes left are       *)
(* queued again, bytesUnread being their count.                             *)
C14_ShortScalarFails ==
    (revision = "part_001" /\ Len(ops) > 0 /\ IsScalar(Last)
     /\ Last.endianness = nativeEndianness /\ past.excess = <<>>
     /\ source.ended /\ Last.fst = "done"
     /\ RemainAtCall < NameWidth(Last.method)) =>
        /\ Last.status = "rejected" /\ Last.err = "EndOfInput"
        /\ Flatten(stream.buffer) = Bytes(Len(past.handed), RemainAtCall)
        /\ reader.BYTES_UNREAD = RemainAtCall

C16_Original ==
    (revision = "part_001" /\ Len(ops) > 0 /\ Last.method = "readString"
     /\ Last.fst = "done") =>
        /\ Last.offset < Last.length =>
               /\ Last.status = "rejected" /\ Last.err = "EndOfInput"
               /\ Last.excess = <<>> /\ reader.BYTES_UNREAD = 0
        /\ Last.offset = Last.length =>
               /\ Last.status = "resolved"
               /\ Last.element = toString(Bytes(Len(past.handed), Last.length))

(* C16, amended: in part_001 readString(n) fills with blockLength n; when   *)
(* its fill sees the source end after k < n bytes it fails with EndOfInput  *)
(* and the k bytes are pushed back (queued again, bytesUnread = k); with n  *)
(* bytes it consumes exactly n bytes and returns their decoding.            *)
C16_ReadString ==
    (revision = "part_001" /\ Len(ops) > 0 /\ Last.method = "readString"
     /\ Last.fst = "done") =>
        LET o == Last
            p == Len(past.handed)
        IN /\ o.fillBlock = o.length
           /\ o.offset < o.length =>
                  /\ o.status = "rejected" /\ o.err = "EndOfInput"
                  /\ source.ended /\ source.written = p + o.offset
                  /\ o.excess = Bytes(p, o.offset)
                  /\ Flatten(stream.buffer) = o.excess
                  /\ reader.BYTES_UNREAD = o.offset
           /\ o.offset = o.length =>
                  /\ o.status = "resolved"
                  /\ WholeBlocks(o) = Bytes(p, o.length)
                  /\ o.element = toString(Bytes(p, o.length))

C16_Witness ==
    /\ revision = "part_001" /\ Len(ops) = 2 /\ Last.method = "readString"
    /\ Last.fst = "done" /\ Last.offset > 0 /\ Last.offset < Last.length
    /\ past.handed # <<>> /\ reader.BYTES_UNREAD = Last.offset

-----------------------------------------------------------------------------
(* Byte order of the typed reads.                                           *)

\* the value, most significant byte first, that bytes stand for in an order
Decode(bytes, endianness) == IF endianness = "BE" THEN bytes ELSE Reverse(bytes)

WrapperBE == {"read" \o kind.name \o "BE" : kind \in ScalarKinds}

WrapperLE == {"read" \o kind.name \o "LE" : kind \in ScalarKinds}

(* C12: in src/proreader.js, for every multi-byte kind X, readXBE returns   *)
(* the big-endian and readXLE the little-endian decoding of the element's   *)
(* bytes, so the two differ on bytes that are not their own reversal.       *)
C12_WrappersDiverge ==
    (revision = "proreader" /\ Len(ops) > 0 /\ Last.status = "resolved"
     /\ Last.elementLength > 1 /\ Len(source.content) = Last.elementLength) =>
        /\ Last.method \in WrapperBE => Last.element = Decode(source.content, "BE")
        /\ Last.method \in WrapperLE => Last.element = Decode(source.content, "LE")

(* C13: in the typed fill of part_001, for an element of 2, 4 or 8 bytes,   *)
(* whichever byte order is native: read in the order it was written in, the *)
(* element is the value written; read in the other order, it is the value   *)
(* whose bytes are the reverse.                                             *)
C13_EndiannessRoundTrip ==
    (revision = "part_001" /\ Len(ops) > 0 /\ Last.status = "resolved"
     /\ Last.elementLength \in {2, 4, 8}
     /\ Len(source.content) = Last.elementLength) =>
        \A written \in {"LE", "BE"} :
            LET value == Decode(source.content, written)
            IN Last.element = IF Last.endianness = written THEN value
                              ELSE Reverse(value)

C13_Witness ==
    /\ revision = "part_001" /\ Len(ops) > 0 /\ Last.status = "resolved"
    /\ Last.elementLength = 8 /\ Last.endianness # nativeEndianness
    /\ Len(source.content) = 8 /\ source.content # Reverse(source.content)

-----------------------------------------------------------------------------
(* What read of part_001 resolves to.                                       *)

(* C17: in part_001 read(container, {allowPart: true}) on a source that     *)
(* does not fail is never rejected, and once its fill has returned it has   *)
(* resolved to the number of whole blocks filled.                           *)
C17_AllowPartNeverFails ==
    revision = "part_001" =>
        \A i \in OpIds :
            (ops[i].method = "read" /\ ops[i].allowPart) =>
                /\ ops[i].status # "rejected"
                /\ ops[i].fst = "done" =>
                       ops[i].status = "resolved" /\ ops[i].value = ops[i].blockCount

(* C19: in part_001 a read(container, options) that has resolved and whose  *)
(* fill has returned resolved to the block count filled, with allowPart     *)
(* true and with allowPart false.                                           *)
C19_ResolvesToBlockCount ==
    revision = "part_001" =>
        \A i \in OpIds :
            (ops[i].method = "read" /\ ops[i].status = "resolved"
             /\ ops[i].fst = "done") =>
                ops[i].value = ops[i].blockCount

-----------------------------------------------------------------------------
(* The demo of src/reader.js.                                               *)

\* the bytes the chunks of the demo make
DemoBytes == Flatten(DemoChunks)

\* the chunks queued in the Reader, in order
rd_QueuedData ==
    Flatten([k \in 1..Len(reader.events) |-> reader.events[k].data])

\* the bytes written that no fill holds: queued in the Reader, then buffered
\* in the stream
rd_Unread == rd_QueuedData \o Flatten(stream.buffer)

rd_EndQueued == \E k \in 1..Len(reader.events) : reader.events[k].type = "end"

\* the first read of the demo has returned
DemoFirstReturned == Len(ops) = 1 /\ ops[1].fst = "done"

(* C18: on the chunks of the demo the big-endian read of a Uint32Array(2)   *)
(* yields [0x01000000, 0x02000003] and leaves the bytes [4,0,0,0] queued,   *)
(* and after the end bytesRemain is the number of bytes that remain.        *)
C18_Original ==
    (revision = "reader" /\ ~source.failed) =>
        /\ DemoFirstReturned =>
               /\ Number(ElementAt(ops[1].dest, 0, 4, nativeEndianness)) = 16777216
               /\ Number(ElementAt(ops[1].dest, 1, 4, nativeEndianness)) = 33554435
               /\ source.ended => rd_Unread = <<4, 0, 0, 0>>
        /\ rd_EndQueued => reader.bytesRemain = Len(rd_Unread)

(* C18, amended: on the chunks of the demo the big-endian read of a         *)
(* Uint32Array(2) yields [0x01000000, 0x02000000] and leaves the 7 bytes    *)
(* [3,0,0,0,4,0,0] unread, in order; bytesRemain is undefined until a       *)
(* request has seen the end and is from then on the number of bytes queued  *)
(* (3 after the second read of the demo has taken one element).             *)
C18_Demo ==
    (revision = "reader" /\ ~source.failed) =>
        /\ DemoFirstReturned =>
               /\ ops[1].status = "resolved" /\ ops[1].blockCount = 2
               /\ Number(ElementAt(ops[1].dest, 0, 4, nativeEndianness)) = 16777216
               /\ Number(ElementAt(ops[1].dest, 1, 4, nativeEndianness)) = 33554432
               /\ rd_Unread = SubSeq(DemoBytes, 9, source.written)
               /\ source.ended => rd_Unread = <<3, 0, 0, 0, 4, 0, 0>>
        /\ reader.bytesRemain # Undefined <=> rd_EndQueued
        /\ rd_EndQueued => reader.bytesRemain = Len(rd_Unread)
        /\ (Len(ops) = 2 /\ ops[2].fst = "done") =>
               /\ ops[2].value = 1
               /\ rd_Unread = <<4, 0, 0>> /\ reader.bytesRemain = 3

C18_Witness ==
    /\ revision = "reader" /\ ~source.failed /\ DemoFirstReturned /\ source.ended
    /\ source.written = 15 /\ Len(rd_Unread) = 7
    /\ ops[1].endianness # nativeEndianness

-----------------------------------------------------------------------------
(* Backpressure of part_000.                                                *)

(* C20: in part_000 the stream starts paused and, as long as neither the    *)
(* end nor an error was observed, it flows only while a chunk request is    *)
(* pending and the chunk queue is empty: a chunk can reach the 'data'       *)
(* handler only then, and when the handler and the fill it wakes are done   *)
(* the stream is paused again unless the fill asked for the next chunk.     *)
C20_FlowsOnlyOnDemand ==
    revision = "part_000" =>
        /\ (~reader.end /\ ~reader.error /\ stream.flowing) =>
               reader.resolve # Null /\ reader.data = <<>>
        /\ Len(ops) = 0 => ~stream.flowing /\ reader.data = <<>>

C20_Witness ==
    /\ revision = "part_000" /\ ~reader.end /\ ~reader.error
    /\ Len(ops) = 2 /\ past.handed # <<>>
    /\ stream.flowing /\ Last.fst = "await" /\ Last.offset > 0
    /\ stream.buffer # <<>>

-----------------------------------------------------------------------------
(* Typed fills of part_001 on arrays of several elements.                  *)

\* typed arrays of 2- and 4-byte elements, up to 2 * MaxLen bytes
TypedArrays ==
    { c \in [isBuffer : {FALSE}, elementLength : {2, 4}, length : 1..MaxLen] :
        c.length * c.elementLength <= 2 * MaxLen }

p1_TypedCalls ==
    \E c \in TypedArrays, blockLength \in 1..MaxBlock,
       endianness \in {"LE", "BE"}, allowPart \in BOOLEAN :
        p1_read(c, blockLength, endianness, allowPart)

\* one read of part_001 into a typed array, on a fresh Reader
Typed_Next ==
    \/ SourceStep
    \/ Len(ops) = 0 /\ p1_TypedCalls
    \/ p1_onData
    \/ p1_onEnd

Typed_Spec == p1_Init /\ [][Typed_Next]_vars

\* the position, in an array of elements of elementLength bytes, that byte k
\* of the array comes from when each element is reversed
Mirror(k, elementLength) ==
    ((k - 1) \div elementLength) * elementLength
        + (elementLength - ((k - 1) % elementLength))

\* C21: in part_001, when a typed fill with a non-native endianness has
\* returned, the first blockCount * blockLength elements of the destination
\* hold the source bytes with each element reversed, every later byte of the
\* destination is as copied (source order, or untouched), and the bytes of the
\* trailing partial block are at the front of the queue in source order.
C21_SwapsWholeBlocksOnly ==
    (/\ Len(ops) = 1
     /\ ~Last.isBuffer
     /\ Last.endianness # nativeEndianness
     /\ Last.fst = "done")
    => LET o == Last
           n == o.blockCount * o.blockLength * o.elementLength
           arrived == Bytes(0, o.offset)
       IN /\ \A k \in 1..Len(o.dest) :
                o.dest[k] = IF k <= n THEN arrived[Mirror(k, o.elementLength)]
                            ELSE IF k <= o.offset THEN arrived[k]
                            ELSE 0
          /\ o.excess = SubSeq(arrived, n + 1, o.offset)
          /\ o.excess # <<>> => Head(stream.buffer) = o.excess

\* a fill that swapped a whole block and pushed back a partial one
C21_Witness ==
    /\ Len(ops) = 1
    /\ ~Last.isBuffer
    /\ Last.endianness # nativeEndianness
    /\ Last.fst = "done"
    /\ Last.blockCount >= 1
    /\ Last.excess # <<>>
    /\ Last.offset < Len(Last.dest)
\* C22: in part_001, readInt8 and readUInt8, in either byte order (readInt8LE,
\* readInt8BE, readUInt8LE, readUInt8BE), whose fill obtained a byte resolve
\* with that byte, whichever byte order is native.
C22_ByteReadsSucceed ==
    (/\ revision = "part_001"
     /\ Len(ops) > 0
     /\ Last.method \in {"readInt8", "readUInt8"}
     /\ Last.fst = "done"
     /\ Last.blockCount >= 1)
    => /\ Last.status = "resolved"
       /\ Last.element = <<Last.dest[1]>>
\* C23: in part_000, pushing back zero bytes adds no entry to the chunk queue:
\* the chunks the source writes and the remainders of chunks are not empty, so
\* the queue never holds a zero-length entry, whatever fills have returned on
\* a block boundary (those of a zero-length destination included).
C23_NoEmptyEntryQueued ==
    revision = "part_000" =>
        \A k \in 1..Len(reader.data) : reader.data[k] # <<>>
\* C24: in part_000, a read with allowPart = false into a container of length
\* D, with a blockLength L that does not divide D, whose fill filled the
\* container, fails with NotEnoughError carrying blockCount = D \div L, and the
\* D % L elements copied past the last whole block are the first entry of the
\* chunk queue.
C24_UnalignedReadFails ==
    (/\ revision = "part_000"
     /\ Len(ops) > 0
     /\ ~Last.allowPart
     /\ Last.fst = "done"
     /\ Last.offset = Len(Last.dest)
     /\ Last.length % Last.blockLength # 0)
    => LET o == Last
           n == (o.length \div o.blockLength) * o.fillBlock
       IN /\ o.status = "rejected"
          /\ o.err = "NotEnoughError"
          /\ o.errBlockCount = o.length \div o.blockLength
          /\ Len(o.dest) - n = (o.length % o.blockLength) * o.elementLength
          /\ reader.data # <<>>
          /\ Head(reader.data) = SubSeq(o.dest, n + 1, Len(o.dest))
-----------------------------------------------------------------------------
(* The terminal events of part_000: 'end' and 'error' in either order.      *)

p0_BufferCalls ==
    \E length \in 0..MaxLen, blockLength \in 1..MaxBlock, allowPart \in BOOLEAN :
        p0_read([isBuffer |-> TRUE, elementLength |-> 1, length |-> length],
                blockLength, nativeEndianness, allowPart)

\* revision part_000 under reads into Buffers, on a source that may fail
\* before or after it ends
Terminal_Next ==
    \/ SourceStep
    \/ Discard
    \/ EndUnobserved
    \/ p0_BufferCalls
    \/ p0_dataHandler
    \/ p0_endHandler
    \/ p0_errorHandler

Terminal_Spec == p0_Init /\ [][Terminal_Next]_vars
\* C25: in part_000, a fill that the source failure made throw after it had
\* copied k > 0 bytes failed with the source error and pushed nothing back:
\* the chunk queue is empty and bytesRemain is 0; and a read issued after the
\* failure rejected a read obtains no byte.
C25_FailureDropsCopiedBytes ==
    (revision = "part_000" /\ Len(ops) > 0) =>
        /\ (Last.fst = "threw" /\ Last.offset > 0) =>
              /\ Last.status = "rejected"
              /\ Last.err = "source"
              /\ reader.error
              /\ reader.data = <<>>
              /\ reader.bytesRemain = 0
        /\ past.rejected > 0 => Last.offset = 0 /\ Flatten(reader.data) = <<>>

\* a fill threw on the source failure with bytes copied
C25_Witness ==
    /\ revision = "part_000"
    /\ Len(ops) > 0
    /\ Last.fst = "threw"
    /\ Last.offset > 0

\* C26: in part_000 at most one terminal event is observed: the end flag and
\* the stored error are never both set, in whichever order the source ends
\* and fails.
C26_OneTerminalEvent ==
    revision = "part_000" => ~(reader.end /\ reader.error)

\* the source ended, then failed, and the failure was the event observed
C26_Witness ==
    /\ revision = "part_000"
    /\ source.ended
    /\ source.failed
    /\ reader.error
    /\ stream.endEmitted
=============================================================================
